---- MODULE Spec2Model ----
(***************************************************************************)
(* Model of pkg/commands/apple_container.go: the adapter that turns the    *)
(* line-delimited JSON printed by Apple's `container` CLI into Container   *)
(* and Image entities, plus the thin command-building operations.          *)
(*                                                                         *)
(* Text is a sequence of one-character strings, so that strings.TrimSpace, *)
(* strings.Split and json.Unmarshal are computed character by character.   *)
(* Command lines are TLA+ strings built with \o, as fmt.Sprintf and +=     *)
(* build them.                                                             *)
(***************************************************************************)
EXTENDS Integers, Sequences, FiniteSets, TLC

VARIABLES
    adapter,    \* the caller's *AppleContainerCommand, nil before construction
    runtimeOut, \* the text the external runtime prints when asked
    ret,        \* the last call: its inputs, what it returned and what it did
    earlier     \* an earlier list call kept for comparison with later ones

vars == <<adapter, runtimeOut, ret, earlier>>

(***************************************************************************)
(* Bounds                                                                  *)
(***************************************************************************)
\* most lines in a text handed to the parsing functions
MaxLines == 3

\* most lines the runtime prints in the adapter specification
MaxRuntimeLines == 2

(***************************************************************************)
(* Characters and strings.Split / strings.TrimSpace                        *)
(***************************************************************************)
NL == "\n"
QUOTE == "\""

\* unicode.IsSpace restricted to the characters of the modelled alphabet
IsSpace(ch) == ch \in {" ", "\t", "\n", "\r"}

\* the JSON scanner's isSpace: the same four characters
JsonIsSpace(ch) == ch \in {" ", "\t", "\n", "\r"}

\* characters below 0x20, which the JSON scanner rejects inside a string
IsControl(ch) == ch \in {"\t", "\n", "\r"}

IsDigit(ch) == ch \in {"0", "1", "2", "3", "4", "5", "6", "7", "8", "9"}

RECURSIVE FirstNonSpace(_, _)
FirstNonSpace(s, i) ==
    IF i > Len(s) THEN i
    ELSE IF IsSpace(s[i]) THEN FirstNonSpace(s, i + 1) ELSE i

RECURSIVE LastNonSpace(_, _)
LastNonSpace(s, j) ==
    IF j < 1 THEN j
    ELSE IF IsSpace(s[j]) THEN LastNonSpace(s, j - 1) ELSE j

TrimSpace(s) ==
    LET i == FirstNonSpace(s, 1)
        j == LastNonSpace(s, Len(s))
    IN IF i > j THEN <<>> ELSE SubSeq(s, i, j)

RECURSIVE IndexOfNL(_, _)
IndexOfNL(s, i) ==
    IF i > Len(s) THEN 0
    ELSE IF s[i] = NL THEN i ELSE IndexOfNL(s, i + 1)

\* strings.Split(s, "\n"): always at least one element
RECURSIVE Split(_)
Split(s) ==
    LET k == IndexOfNL(s, 1)
    IN IF k = 0 THEN <<s>>
       ELSE <<SubSeq(s, 1, k - 1)>> \o Split(SubSeq(s, k + 1, Len(s)))

(***************************************************************************)
(* encoding/json: Unmarshal of a text into a map[string]interface{}        *)
(* A decoded value is [type, raw]: a string carries its characters, any    *)
(* other value the characters it was written with.                         *)
(***************************************************************************)
Fail == [ok |-> FALSE, next |-> 0, val |-> [type |-> "none", raw |-> <<>>]]

Okay(n, t, r) == [ok |-> TRUE, next |-> n, val |-> [type |-> t, raw |-> r]]

RECURSIVE SkipWs(_, _)
SkipWs(s, i) ==
    IF i > Len(s) THEN i
    ELSE IF JsonIsSpace(s[i]) THEN SkipWs(s, i + 1) ELSE i

\* index of the quote that closes a string literal whose body starts at i;
\* 0 when the text ends or a control character comes first (the modelled
\* alphabet has no backslash, so no escape sequences)
RECURSIVE CloseQuote(_, _)
CloseQuote(s, i) ==
    IF i > Len(s) THEN 0
    ELSE IF s[i] = QUOTE THEN i
    ELSE IF IsControl(s[i]) THEN 0
    ELSE CloseQuote(s, i + 1)

ScanString(s, i) ==
    IF i > Len(s) \/ s[i] # QUOTE THEN Fail
    ELSE LET k == CloseQuote(s, i + 1)
         IN IF k = 0 THEN Fail
            ELSE Okay(k + 1, "string", SubSeq(s, i + 1, k - 1))

RECURSIVE DigitsEnd(_, _)
DigitsEnd(s, i) ==
    IF i > Len(s) THEN i
    ELSE IF IsDigit(s[i]) THEN DigitsEnd(s, i + 1) ELSE i

\* integers without sign, fraction or exponent; no leading zero
ScanNumber(s, i) ==
    LET e == DigitsEnd(s, i)
    IN IF e = i THEN Fail
       ELSE IF s[i] = "0" /\ e > i + 1 THEN Fail
       ELSE Okay(e, "number", SubSeq(s, i, e - 1))

ScanLiteral(s, i, word, t) ==
    IF i + Len(word) - 1 <= Len(s) /\ SubSeq(s, i, i + Len(word) - 1) = word
    THEN Okay(i + Len(word), t, word)
    ELSE Fail

EmptyMap == [x \in {} |-> 0]

\* a string, number or literal starting at s[i]
ScanScalar(s, i) ==
    IF s[i] = QUOTE THEN ScanString(s, i)
    ELSE IF s[i] = "t" THEN ScanLiteral(s, i, <<"t", "r", "u", "e">>, "bool")
    ELSE IF s[i] = "f" THEN ScanLiteral(s, i, <<"f", "a", "l", "s", "e">>, "bool")
    ELSE IF s[i] = "n" THEN ScanLiteral(s, i, <<"n", "u", "l", "l">>, "null")
    ELSE IF IsDigit(s[i]) THEN ScanNumber(s, i)
    ELSE Fail

Pop(stack) == SubSeq(stack, 1, Len(stack) - 1)

\* whether a value that ends now is a member of the top-level object
IsMember(stack) == Len(stack) = 1 /\ stack[1] = "object"

WithMember(acc, v) ==
    [acc EXCEPT !.map = [x \in (DOMAIN acc.map) \cup {acc.key} |->
                            IF x = acc.key THEN v ELSE acc.map[x]]]

ScanFailed == [ok |-> FALSE, next |-> 0, top |-> "none", map |-> EmptyMap]

\* The scanner and decoder as one machine over the text: expect is what may
\* come next, stack the containers that are open (the scanner's parseState),
\* acc the top-level value's type, the members of the top-level object
\* decoded so far, the current member's key and where its value starts.
\* A repeated key keeps the last value.
RECURSIVE Scan(_, _, _, _, _)
Scan(s, i0, expect, stack, acc) ==
    LET i == SkipWs(s, i0)
    IN IF expect = "afterValue" /\ Len(stack) = 0
       THEN [ok |-> TRUE, next |-> i0, top |-> acc.top, map |-> acc.map]
       ELSE IF i > Len(s) THEN ScanFailed
       ELSE IF \/ expect = "afterValue" /\ s[i] = "}" /\ stack[Len(stack)] = "object"
               \/ expect = "afterValue" /\ s[i] = "]" /\ stack[Len(stack)] = "array"
               \/ expect = "keyOrClose" /\ s[i] = "}"
               \/ expect = "valueOrClose" /\ s[i] = "]"
       THEN \* a container closes
            LET rest == Pop(stack)
                v == [type |-> stack[Len(stack)], raw |-> SubSeq(s, acc.start, i)]
            IN Scan(s, i + 1, "afterValue", rest,
                    IF IsMember(rest) THEN WithMember(acc, v) ELSE acc)
       ELSE IF expect = "afterValue"
       THEN IF s[i] # "," THEN ScanFailed
            ELSE IF stack[Len(stack)] = "object"
                 THEN Scan(s, i + 1, "key", stack, acc)
                 ELSE Scan(s, i + 1, "value", stack, acc)
       ELSE IF expect \in {"key", "keyOrClose"}
       THEN LET k == ScanString(s, i)
                c == SkipWs(s, k.next)
            IN IF ~k.ok THEN ScanFailed
               ELSE IF c > Len(s) \/ s[c] # ":" THEN ScanFailed
               ELSE Scan(s, c + 1, "value", stack,
                         IF IsMember(stack) THEN [acc EXCEPT !.key = k.val.raw]
                         ELSE acc)
       ELSE \* a value begins
            LET acc1 == IF Len(stack) = 0
                        THEN [acc EXCEPT !.top =
                                 IF s[i] = "{" THEN "object"
                                 ELSE IF s[i] = "[" THEN "array" ELSE "scalar"]
                        ELSE IF IsMember(stack) THEN [acc EXCEPT !.start = i]
                        ELSE acc
            IN IF s[i] = "{"
               THEN Scan(s, i + 1, "keyOrClose", Append(stack, "object"), acc1)
               ELSE IF s[i] = "["
               THEN Scan(s, i + 1, "valueOrClose", Append(stack, "array"), acc1)
               ELSE LET v == ScanScalar(s, i)
                    IN IF ~v.ok THEN ScanFailed
                       ELSE Scan(s, v.next, "afterValue", stack,
                                 IF IsMember(stack) THEN WithMember(acc1, v.val)
                                 ELSE IF Len(stack) = 0
                                      THEN [acc1 EXCEPT !.top = v.val.type]
                                      ELSE acc1)

\* a scanned value is the document when only whitespace follows it
Finished(s, r) == IF r.ok /\ SkipWs(s, r.next) > Len(s) THEN r ELSE ScanFailed

\* the whole text as one JSON value: top is its type
ScanDocument(s) ==
    Finished(s, Scan(s, 1, "value", <<>>,
                     [top |-> "none", map |-> EmptyMap, key |-> <<>>, start |-> 0]))

\* what Unmarshal stores into a nil map[string]interface{} for a scanned
\* document: err is "" on success; a JSON null leaves the map nil
Decoded(r) ==
    IF ~r.ok THEN [err |-> "syntax", isNil |-> TRUE, map |-> EmptyMap]
    ELSE IF r.top = "object" THEN [err |-> "", isNil |-> FALSE, map |-> r.map]
    ELSE IF r.top = "null" THEN [err |-> "", isNil |-> TRUE, map |-> EmptyMap]
    ELSE [err |-> "type", isNil |-> TRUE, map |-> EmptyMap]

\* json.Unmarshal([]byte(s), &m)
Unmarshal(s) == Decoded(ScanDocument(s))

(***************************************************************************)
(* The adapter and the entities it creates                                 *)
(***************************************************************************)
\* the five fields of AppleContainerCommand, as the references it was given
AppleContainerCommand(log, osCommand, tr, config, errorChan) ==
    [Log |-> log, OSCommand |-> osCommand, Tr |-> tr, Config |-> config,
     ErrorChan |-> errorChan]

\* a *AppleContainerCommand
NilAdapter == [isNil |-> TRUE, obj |-> AppleContainerCommand("", "", "", "", "")]

TestAdapter ==
    [isNil |-> FALSE,
     obj |-> AppleContainerCommand("log", "osCommand", "tr", "appConfig", "errorChan")]

NoErr == [msg |-> "", cause |-> ""]

\* fmt.Errorf(prefix + ": %w", err)
Wrap(prefix, err) == [msg |-> prefix \o ": " \o err.msg, cause |-> err.msg]

K_id == <<"i", "d">>
K_name == <<"n", "a", "m", "e">>
K_image == <<"i", "m", "a", "g", "e">>
K_state == <<"s", "t", "a", "t", "e">>
K_tag == <<"t", "a", "g">>

STOPPED == <<"s", "t", "o", "p", "p", "e", "d">>
EXITED == <<"e", "x", "i", "t", "e", "d">>

\* v, _ := data[key].(string): the zero string when the key is absent or
\* its value is not a string
AsString(data, key) ==
    IF key \in DOMAIN data /\ data[key].type = "string" THEN data[key].raw
    ELSE <<>>

\* the Container literal of jsonToContainer sets ID, Name, OSCommand, Log and
\* Tr; every other field, State among them, keeps its zero value
ZeroContainer ==
    [ID |-> <<>>, Name |-> <<>>, State |-> <<>>, OSCommand |-> "", Log |-> "", Tr |-> ""]

ZeroImage ==
    [ID |-> <<>>, Name |-> <<>>, Tag |-> <<>>, OSCommand |-> "", Log |-> ""]

\* the switch of jsonToContainer
mappedState(state) == IF state = STOPPED THEN EXITED ELSE state

\* a variant that rejects a record only when both id and name are empty
jsonToContainerBothEmpty(c, data) ==
    LET id == AsString(data, K_id)
        name == AsString(data, K_name)
        state == AsString(data, K_state)
    IN IF id = <<>> /\ name = <<>>
       THEN [isNil |-> TRUE, ent |-> ZeroContainer, logs |-> <<"warn">>,
             logged |-> <<>>]
       ELSE [isNil |-> FALSE,
             ent |-> [ZeroContainer EXCEPT !.ID = id, !.Name = name,
                                           !.OSCommand = c.OSCommand,
                                           !.Log = c.Log, !.Tr = c.Tr],
             logs |-> <<"debug">>,
             logged |-> mappedState(state)]

jsonToContainer(c, data) ==
    LET id == AsString(data, K_id)
        name == AsString(data, K_name)
        image == AsString(data, K_image)
        state == AsString(data, K_state)
    IN IF id = <<>> \/ name = <<>>
       THEN [isNil |-> TRUE, ent |-> ZeroContainer, logs |-> <<"warn">>,
             logged |-> <<>>]
       ELSE [isNil |-> FALSE,
             ent |-> [ZeroContainer EXCEPT !.ID = id, !.Name = name,
                                           !.OSCommand = c.OSCommand,
                                           !.Log = c.Log, !.Tr = c.Tr],
             logs |-> <<"debug">>,
             logged |-> mappedState(state)]

\* a variant that asks for a name as jsonToContainer does
jsonToImageNameRequired(c, data) ==
    LET id == AsString(data, K_id)
        name == AsString(data, K_name)
        tag == AsString(data, K_tag)
    IN IF id = <<>> \/ name = <<>>
       THEN [isNil |-> TRUE, ent |-> ZeroImage, logs |-> <<"warn">>]
       ELSE [isNil |-> FALSE,
             ent |-> [ZeroImage EXCEPT !.ID = id, !.Name = name, !.Tag = tag,
                                       !.OSCommand = c.OSCommand, !.Log = c.Log],
             logs |-> <<"debug">>]

jsonToImage(c, data) ==
    LET id == AsString(data, K_id)
        name == AsString(data, K_name)
        tag == AsString(data, K_tag)
    IN IF id = <<>>
       THEN [isNil |-> TRUE, ent |-> ZeroImage, logs |-> <<"warn">>]
       ELSE [isNil |-> FALSE,
             ent |-> [ZeroImage EXCEPT !.ID = id, !.Name = name, !.Tag = tag,
                                       !.OSCommand = c.OSCommand, !.Log = c.Log],
             logs |-> <<"debug">>]

\* What one iteration of the parsing loops adds to the result: nothing for
\* a blank line, a warning for a line that does not decode, otherwise what
\* the mapping function r gives.
Blank == [kind |-> "blank", items |-> <<>>, logs |-> <<>>]

Undecodable == [kind |-> "undecodable", items |-> <<>>, logs |-> <<"warn">>]

Mapped(r) ==
    [kind |-> IF r.isNil THEN "rejected" ELSE "kept",
     items |-> IF r.isNil THEN <<>> ELSE <<r.ent>>,
     logs |-> r.logs]

Added(acc, a) == [items |-> acc.items \o a.items, logs |-> acc.logs \o a.logs]

containerDecoded(c, u) ==
    IF u.err # "" THEN Undecodable ELSE Mapped(jsonToContainer(c, u.map))

\* the body of the for loop of parseContainerList
containerLine(c, line) ==
    IF TrimSpace(line) = <<>> THEN Blank ELSE containerDecoded(c, Unmarshal(line))

\* a variant whose loop ends at the first line that does not decode
RECURSIVE containerLoopStopsAtBadLine(_, _, _, _)
containerLoopStopsAtBadLine(c, lines, k, acc) ==
    IF k > Len(lines) THEN acc
    ELSE IF containerLine(c, lines[k]).kind = "undecodable"
         THEN Added(acc, Undecodable)
    ELSE containerLoopStopsAtBadLine(c, lines, k + 1,
                                     Added(acc, containerLine(c, lines[k])))

\* a variant whose loop ends at the first blank line
RECURSIVE containerLoopStopsAtBlank(_, _, _, _)
containerLoopStopsAtBlank(c, lines, k, acc) ==
    IF k > Len(lines) THEN acc
    ELSE IF TrimSpace(lines[k]) = <<>> THEN acc
    ELSE containerLoopStopsAtBlank(c, lines, k + 1,
                                   Added(acc, containerLine(c, lines[k])))

\* the for loop of parseContainerList from line k on
RECURSIVE containerLoop(_, _, _, _)
containerLoop(c, lines, k, acc) ==
    IF k > Len(lines) THEN acc
    ELSE containerLoop(c, lines, k + 1, Added(acc, containerLine(c, lines[k])))

\* the slice a parsing function returns, [isNil, items]; its error is
\* always nil
Collected(r) ==
    [val |-> [isNil |-> FALSE, items |-> r.items], err |-> NoErr, logs |-> r.logs]

NoItems == [items |-> <<>>, logs |-> <<>>]

parseContainerList(c, output) ==
    IF TrimSpace(output) = <<>> THEN Collected(NoItems)
    ELSE Collected(containerLoop(c, Split(TrimSpace(output)), 1, NoItems))

imageDecoded(c, u) ==
    IF u.err # "" THEN Undecodable ELSE Mapped(jsonToImage(c, u.map))

\* the body of the for loop of parseImageList
imageLine(c, line) ==
    IF TrimSpace(line) = <<>> THEN Blank ELSE imageDecoded(c, Unmarshal(line))

RECURSIVE imageLoop(_, _, _, _)
imageLoop(c, lines, k, acc) ==
    IF k > Len(lines) THEN acc
    ELSE imageLoop(c, lines, k + 1, Added(acc, imageLine(c, lines[k])))

parseImageList(c, output) ==
    IF TrimSpace(output) = <<>> THEN Collected(NoItems)
    ELSE Collected(imageLoop(c, Split(TrimSpace(output)), 1, NoItems))

NilSlice == [isNil |-> TRUE, items |-> <<>>]

\* what a list operation returns once the executor has answered x without
\* an error and the parsing function has answered p
Listed(prefix, cmd, x, p) ==
    IF p.err # NoErr
    THEN [val |-> NilSlice, err |-> Wrap(prefix, p.err),
          logs |-> <<"info">> \o p.logs \o <<"error">>,
          parsed |-> <<x.output>>, cmds |-> <<cmd>>]
    ELSE [val |-> p.val, err |-> NoErr,
          logs |-> <<"info">> \o p.logs \o <<"info">>,
          parsed |-> <<x.output>>, cmds |-> <<cmd>>]

\* what a list or status operation returns when the executor fails
Failed(prefix, cmd, x, nothing, logs) ==
    [val |-> nothing, err |-> Wrap(prefix, x.err), logs |-> logs,
     parsed |-> <<>>, cmds |-> <<cmd>>]

\* a variant that drops the executor's error and parses whatever came back
GetContainersIgnoringError(c, x) ==
    Listed("failed to parse container list", "container ps --format json", x,
           parseContainerList(c, x.output))

\* the containers of the previous call followed by those of p
After(p) ==
    [p EXCEPT !.val.items =
        (IF ret.op = "GetContainers" THEN ret.val.items ELSE <<>>) \o @]

\* a variant that keeps the containers of the previous call and appends to
\* them
GetContainersAppending(c, x) ==
    IF x.err # NoErr
    THEN Failed("failed to get containers", "container ps --format json", x,
                NilSlice, <<"info", "error">>)
    ELSE Listed("failed to parse container list", "container ps --format json", x,
                After(parseContainerList(c, x.output)))

\* x is what c.OSCommand.RunCommandWithOutput returned: [output, err]
GetContainers(c, x) ==
    IF x.err # NoErr
    THEN Failed("failed to get containers", "container ps --format json", x,
                NilSlice, <<"info", "error">>)
    ELSE Listed("failed to parse container list", "container ps --format json", x,
                parseContainerList(c, x.output))

GetImages(c, x) ==
    IF x.err # NoErr
    THEN Failed("failed to get images", "container images list --format json", x,
                NilSlice, <<"info", "error">>)
    ELSE Listed("failed to parse image list", "container images list --format json", x,
                parseImageList(c, x.output))

\* a map[string]interface{} is [isNil, map]
NilMap == [isNil |-> TRUE, map |-> EmptyMap]

\* what SystemStatus returns once the executor has answered x without an
\* error and json.Unmarshal has answered u
Status(x, u) ==
    IF u.err # ""
    THEN [val |-> NilMap,
          err |-> Wrap("failed to parse system status", [msg |-> u.err, cause |-> ""]),
          logs |-> <<"info">>, parsed |-> <<x.output>>,
          cmds |-> <<"container system status --format json">>]
    ELSE [val |-> [isNil |-> u.isNil, map |-> u.map], err |-> NoErr,
          logs |-> <<"info">>, parsed |-> <<x.output>>,
          cmds |-> <<"container system status --format json">>]

\* a variant that decodes the first line only, as the list operations split
SystemStatusFirstLine(c, x) ==
    IF x.err # NoErr
    THEN Failed("failed to get system status",
                "container system status --format json", x, NilMap, <<"info">>)
    ELSE Status(x, Unmarshal(Split(x.output)[1]))

SystemStatus(c, x) ==
    IF x.err # NoErr
    THEN Failed("failed to get system status",
                "container system status --format json", x, NilMap, <<"info">>)
    ELSE Status(x, Unmarshal(x.output))

(***************************************************************************)
(* The command-building operations.  e is the error c.OSCommand.RunCommand *)
(* answers with; cmds lists the command lines handed to the executor.      *)
(***************************************************************************)
RunCommand(cmd, e) == [cmds |-> <<cmd>>, err |-> e]

BuildImage(c, tag, dockerfile, e) ==
    RunCommand("container build --tag " \o tag \o " --file " \o dockerfile \o " .", e)

\* a variant that puts the flag after the image
RunContainerFlagLast(c, name, image, detached, e) ==
    LET cmd0 == "container run --name " \o name \o " " \o image
        cmd1 == IF detached THEN cmd0 \o " --detach" ELSE cmd0
    IN RunCommand(cmd1, e)

RunContainer(c, name, image, detached, e) ==
    LET cmd0 == "container run --name " \o name
        cmd1 == IF detached THEN cmd0 \o " --detach" ELSE cmd0
    IN RunCommand(cmd1 \o " " \o image, e)

StopContainer(c, nameOrID, e) == RunCommand("container stop " \o nameOrID, e)

RemoveContainer(c, nameOrID, force, e) ==
    LET cmd0 == "container rm"
        cmd1 == IF force THEN cmd0 \o " --force" ELSE cmd0
    IN RunCommand(cmd1 \o " " \o nameOrID, e)

ExecCommand(c, nameOrID, command, e) ==
    RunCommand("container exec " \o nameOrID \o " " \o command, e)

SystemStart(c, e) == RunCommand("container system start", e)

SystemStop(c, e) == RunCommand("container system stop", e)

\* a variant that builds the adapter before it looks at the probe
NewAppleContainerCommandPartial(available, log, osCommand, tr, config, errorChan) ==
    [val |-> [isNil |-> FALSE,
              obj |-> AppleContainerCommand(log, osCommand, tr, config, errorChan)],
     err |-> IF available THEN NoErr
             ELSE [msg |-> "Apple Container CLI not found. Please ensure 'container' command is available in PATH",
                   cause |-> ""],
     cmds |-> <<>>]

\* NewAppleContainerCommand, given what isAppleContainerAvailable answered
NewAppleContainerCommand(available, log, osCommand, tr, config, errorChan) ==
    IF ~available
    THEN [val |-> NilAdapter,
          err |-> [msg |-> "Apple Container CLI not found. Please ensure 'container' command is available in PATH",
                   cause |-> ""],
          cmds |-> <<>>]
    ELSE [val |-> [isNil |-> FALSE,
                   obj |-> AppleContainerCommand(log, osCommand, tr, config, errorChan)],
          err |-> NoErr, cmds |-> <<>>]

(***************************************************************************)
(* Inputs: lines the runtime may print, and decoded records                *)
(***************************************************************************)
Q(w) == <<QUOTE>> \o w \o <<QUOTE>>

Member(k, v) == Q(k) \o <<":">> \o v

Obj1(a) == <<"{">> \o a \o <<"}">>
Obj2(a, b) == <<"{">> \o a \o <<",">> \o b \o <<"}">>
Obj3(a, b, c) == <<"{">> \o a \o <<",">> \o b \o <<",">> \o c \o <<"}">>

RUNNING == <<"r", "u", "n">>

\* a stopped container
LineStopped ==
    Obj3(Member(K_id, Q(<<"a">>)), Member(K_name, Q(<<"w">>)), Member(K_state, Q(STOPPED)))

\* a record with the fields of an image, which is a container record too
LineFull ==
    Obj3(Member(K_id, Q(<<"b">>)), Member(K_name, Q(<<"v">>)), Member(K_tag, Q(<<"t">>)))

\* only the id: an image with defaults, no container
LineIdOnly == Obj1(Member(K_id, Q(<<"c">>)))

LineNoId == Obj2(Member(K_name, Q(<<"w">>)), Member(K_tag, Q(<<"t">>)))

\* optional fields of the wrong type: a nested mapping and a boolean
LineWrongTyped ==
    Obj3(Member(K_id, Q(<<"d">>)),
         Member(K_name, Obj1(Member(<<"x">>, <<"1">>))),
         Member(K_tag, <<"t", "r", "u", "e">>))

\* the test's `{"invalid json}`
LineInvalid == <<"{", QUOTE, "i", "n", "v", "a", "l", "i", "d", " ", "j", "s", "o", "n", "}">>

LineBlank == <<>>

LineSpaces == <<" ", "\t", "\r">>

LineNull == <<"n", "u", "l", "l">>

LineArray == <<"[", "1", "]">>

\* a record ending in a carriage return, with spaces inside
LineCR ==
    <<" ">> \o Obj2(Member(K_id, Q(<<"f">>)) \o <<" ">>, <<" ">> \o Member(K_name, Q(<<"s">>)))
        \o <<"\r">>

Catalog ==
    {LineStopped, LineFull, LineIdOnly, LineNoId, LineWrongTyped, LineInvalid,
     LineBlank, LineSpaces, LineNull, LineCR}

\* the lines the runtime of the adapter specification prints
RuntimeCatalog ==
    {LineStopped, LineFull, LineIdOnly, LineNoId, LineInvalid, LineBlank,
     LineNull, LineArray}

SeqsUpTo(S, n) == UNION {[1..k -> S] : k \in 0..n}

RECURSIVE Join(_)
Join(lines) ==
    IF Len(lines) = 0 THEN <<>>
    ELSE IF Len(lines) = 1 THEN lines[1]
    ELSE lines[1] \o <<NL>> \o Join(Tail(lines))

Absent == [type |-> "absent", raw |-> <<>>]
Str(w) == [type |-> "string", raw |-> w]
Number1 == [type |-> "number", raw |-> <<"1">>]
True == [type |-> "bool", raw |-> <<"t", "r", "u", "e">>]
Null == [type |-> "null", raw |-> <<"n", "u", "l", "l">>]
Nested == [type |-> "object", raw |-> <<"{", "}">>]

\* the map with the keys of f that are not Absent
MapOf(f) == [k \in {x \in DOMAIN f : f[x] # Absent} |-> f[k]]

IdValues == {Absent, Str(<<>>), Str(<<"a">>), Number1, Null, Nested}
NameValues == {Absent, Str(<<>>), Str(<<"w">>), True, Nested}
StateValues == {Absent, Str(STOPPED), Str(RUNNING), Str(EXITED), Number1}
TagValues == {Absent, Str(<<"t">>), Number1, Null}

ContainerRecords ==
    {MapOf([k \in {K_id, K_name, K_image, K_state} |->
               IF k = K_id THEN i ELSE IF k = K_name THEN n
               ELSE IF k = K_image THEN g ELSE st]) :
        i \in IdValues, n \in NameValues, g \in {Absent, Str(<<"g">>)}, st \in StateValues}

ImageRecords ==
    {MapOf([k \in {K_id, K_name, K_tag} |->
               IF k = K_id THEN i ELSE IF k = K_name THEN n ELSE t]) :
        i \in IdValues, n \in NameValues, t \in TagValues}

ExecFailure == [msg |-> "exit status 1", cause |-> ""]
ExecErrs == {NoErr, ExecFailure}

Names == {"web", "db"}
ImageNames == {"nginx"}
Tags == {"app:1", "app:2"}
Dockerfiles == {"Dockerfile"}
Commands == {"ls"}

(***************************************************************************)
(* State                                                                   *)
(***************************************************************************)
NoRet ==
    [op |-> "none", args |-> <<>>, lines |-> <<>>, out |-> <<>>, data |-> EmptyMap,
     execErr |-> NoErr, val |-> NilSlice, err |-> NoErr, logs |-> <<>>,
     parsed |-> <<>>, cmds |-> <<>>]

\* other: whether an operation that is not a list operation ran since
NoCall == [op |-> "none", out |-> <<>>, val |-> NilSlice, other |-> FALSE]

\* the adapter specification: nothing constructed yet, the runtime prints
\* some text
Init ==
    /\ adapter = NilAdapter
    /\ \E ls \in SeqsUpTo(RuntimeCatalog, MaxRuntimeLines) :
           runtimeOut = [lines |-> ls, text |-> Join(ls)]
    /\ ret = NoRet
    /\ earlier = NoCall

New ==
    /\ adapter.isNil
    /\ \E available \in BOOLEAN :
        LET r == NewAppleContainerCommand(available, "log", "osCommand", "tr",
                                          "appConfig", "errorChan")
        IN /\ adapter' = r.val
           /\ ret' = [NoRet EXCEPT !.op = "New", !.args = <<available>>,
                                   !.val = r.val, !.err = r.err, !.cmds = r.cmds]
    /\ UNCHANGED <<runtimeOut, earlier>>

\* a list or status operation answered r when the executor answered e
Queried(name, e, r) ==
    /\ ret' = [NoRet EXCEPT !.op = name, !.lines = runtimeOut.lines,
                            !.out = runtimeOut.text, !.execErr = e,
                            !.val = r.val, !.err = r.err, !.logs = r.logs,
                            !.parsed = r.parsed, !.cmds = r.cmds]
    /\ \/ /\ name # "SystemStatus"
          /\ earlier' = earlier
       \/ /\ name = "SystemStatus"
          /\ earlier' = [earlier EXCEPT !.other = (earlier.op # "none")]
       \/ /\ name # "SystemStatus"
          /\ r.err = NoErr
          /\ earlier' = [op |-> name, out |-> runtimeOut.text,
                         val |-> r.val, other |-> FALSE]
    /\ UNCHANGED <<adapter, runtimeOut>>

DoGetContainers ==
    /\ ~adapter.isNil
    /\ \E e \in ExecErrs :
        Queried("GetContainers", e,
                GetContainers(adapter.obj, [output |-> runtimeOut.text, err |-> e]))

DoGetImages ==
    /\ ~adapter.isNil
    /\ \E e \in ExecErrs :
        Queried("GetImages", e,
                GetImages(adapter.obj, [output |-> runtimeOut.text, err |-> e]))

DoSystemStatus ==
    /\ ~adapter.isNil
    /\ \E e \in ExecErrs :
        Queried("SystemStatus", e,
                SystemStatus(adapter.obj, [output |-> runtimeOut.text, err |-> e]))

Returned(name, args, e, r) ==
    /\ ret' = [NoRet EXCEPT !.op = name, !.args = args, !.execErr = e,
                            !.err = r.err, !.cmds = r.cmds]
    /\ earlier' = [earlier EXCEPT !.other = (earlier.op # "none")]
    /\ UNCHANGED <<adapter, runtimeOut>>

DoBuildImage ==
    /\ ~adapter.isNil
    /\ \E tag \in Tags, dockerfile \in Dockerfiles, e \in ExecErrs :
        Returned("BuildImage", <<tag, dockerfile>>, e,
                 BuildImage(adapter.obj, tag, dockerfile, e))

DoRunContainer ==
    /\ ~adapter.isNil
    /\ \E name \in Names, image \in ImageNames, detached \in BOOLEAN, e \in ExecErrs :
        Returned("RunContainer", <<name, image, detached>>, e,
                 RunContainer(adapter.obj, name, image, detached, e))

DoStopContainer ==
    /\ ~adapter.isNil
    /\ \E nameOrID \in Names, e \in ExecErrs :
        Returned("StopContainer", <<nameOrID>>, e,
                 StopContainer(adapter.obj, nameOrID, e))

DoRemoveContainer ==
    /\ ~adapter.isNil
    /\ \E nameOrID \in Names, force \in BOOLEAN, e \in ExecErrs :
        Returned("RemoveContainer", <<nameOrID, force>>, e,
                 RemoveContainer(adapter.obj, nameOrID, force, e))

DoExecCommand ==
    /\ ~adapter.isNil
    /\ \E nameOrID \in Names, command \in Commands, e \in ExecErrs :
        Returned("ExecCommand", <<nameOrID, command>>, e,
                 ExecCommand(adapter.obj, nameOrID, command, e))

DoSystemStart ==
    /\ ~adapter.isNil
    /\ \E e \in ExecErrs :
        Returned("SystemStart", <<>>, e, SystemStart(adapter.obj, e))

DoSystemStop ==
    /\ ~adapter.isNil
    /\ \E e \in ExecErrs :
        Returned("SystemStop", <<>>, e, SystemStop(adapter.obj, e))

Next ==
    \/ New
    \/ DoGetContainers
    \/ DoGetImages
    \/ DoSystemStatus
    \/ DoBuildImage
    \/ DoRunContainer
    \/ DoStopContainer
    \/ DoRemoveContainer
    \/ DoExecCommand
    \/ DoSystemStart
    \/ DoSystemStop

Spec == Init /\ [][Next]_vars

(***************************************************************************)
(* The parsing and mapping functions called directly, as the tests call    *)
(* them on an adapter built by a literal                                   *)
(***************************************************************************)
InitPure ==
    /\ adapter = TestAdapter
    /\ runtimeOut = [lines |-> <<>>, text |-> <<>>]
    /\ ret = NoRet
    /\ earlier = NoCall

\* a parsing function answered r for the text of the lines ls
Parsed(name, ls, r) ==
    /\ ret' = [NoRet EXCEPT !.op = name, !.lines = ls, !.out = Join(ls),
                            !.val = r.val, !.err = r.err, !.logs = r.logs]
    /\ UNCHANGED <<adapter, runtimeOut, earlier>>

\* one call per behaviour
CallParseContainerList ==
    /\ ret.op = "none"
    /\ \E ls \in SeqsUpTo(Catalog, MaxLines) :
        Parsed("parseContainerList", ls, parseContainerList(adapter.obj, Join(ls)))

CallParseImageList ==
    /\ ret.op = "none"
    /\ \E ls \in SeqsUpTo(Catalog, MaxLines) :
        Parsed("parseImageList", ls, parseImageList(adapter.obj, Join(ls)))

CallJsonToContainer ==
    /\ ret.op = "none"
    /\ \E data \in ContainerRecords :
        LET r == jsonToContainer(adapter.obj, data)
        IN ret' = [NoRet EXCEPT !.op = "jsonToContainer", !.data = data,
                                !.val = [isNil |-> r.isNil, ent |-> r.ent],
                                !.logs = r.logs]
    /\ UNCHANGED <<adapter, runtimeOut, earlier>>

CallJsonToImage ==
    /\ ret.op = "none"
    /\ \E data \in ImageRecords :
        LET r == jsonToImage(adapter.obj, data)
        IN ret' = [NoRet EXCEPT !.op = "jsonToImage", !.data = data,
                                !.val = [isNil |-> r.isNil, ent |-> r.ent],
                                !.logs = r.logs]
    /\ UNCHANGED <<adapter, runtimeOut, earlier>>

NextPure ==
    \/ CallParseContainerList
    \/ CallParseImageList
    \/ CallJsonToContainer
    \/ CallJsonToImage

SpecPure == InitPure /\ [][NextPure]_vars

(***************************************************************************)
(* Properties                                                              *)
(***************************************************************************)
IsStr(data, k) == k \in DOMAIN data /\ data[k].type = "string"

\* the string a record holds under k, empty when there is none
StrOf(data, k) == IF IsStr(data, k) THEN data[k].raw ELSE <<>>

\* C1: a container record with non-empty id and name and state "stopped"
\* gives an entity whose state is "exited"; any other state is carried by
\* the entity unchanged.
C1_StateNormalized ==
    (ret.op = "jsonToContainer" /\ StrOf(ret.data, K_id) # <<>>
                                /\ StrOf(ret.data, K_name) # <<>>)
    => /\ ~ret.val.isNil
       /\ ret.val.ent.State = IF StrOf(ret.data, K_state) = STOPPED THEN EXITED
                              ELSE StrOf(ret.data, K_state)

\* the entity a line gives on its own: none when it does not decode or
\* fails validation
EntityIfAny(r) == IF r.isNil THEN <<>> ELSE <<r.ent>>

ContainerIfDecoded(c, u) ==
    IF u.err # "" THEN <<>> ELSE EntityIfAny(jsonToContainer(c, u.map))

ContainerOfLine(c, line) == ContainerIfDecoded(c, Unmarshal(line))

ImageIfDecoded(c, u) ==
    IF u.err # "" THEN <<>> ELSE EntityIfAny(jsonToImage(c, u.map))

ImageOfLine(c, line) == ImageIfDecoded(c, Unmarshal(line))

RECURSIVE ContainersOf(_, _)
ContainersOf(c, lines) ==
    IF Len(lines) = 0 THEN <<>>
    ELSE ContainerOfLine(c, Head(lines)) \o ContainersOf(c, Tail(lines))

RECURSIVE ImagesOf(_, _)
ImagesOf(c, lines) ==
    IF Len(lines) = 0 THEN <<>>
    ELSE ImageOfLine(c, Head(lines)) \o ImagesOf(c, Tail(lines))

InsertAt(lines, p, b) == SubSeq(lines, 1, p) \o <<b>> \o SubSeq(lines, p + 1, Len(lines))

\* lines that give no entity: one that does not decode, one that fails
\* validation
DroppedLines == {LineInvalid, LineNoId}

\* C2: parseContainerList and parseImageList return exactly the entities of
\* the lines that decode and pass validation, in input order, and a dropped
\* line inserted anywhere changes nothing of the result.
C2_ValidLinesInOrder ==
    /\ ret.op = "parseContainerList" =>
        /\ ret.err = NoErr
        /\ ret.val.items = ContainersOf(adapter.obj, ret.lines)
        /\ \A p \in 0..Len(ret.lines), b \in DroppedLines :
              parseContainerList(adapter.obj, Join(InsertAt(ret.lines, p, b))).val
                  = ret.val
    /\ ret.op = "parseImageList" =>
        /\ ret.err = NoErr
        /\ ret.val.items = ImagesOf(adapter.obj, ret.lines)
        /\ \A p \in 0..Len(ret.lines), b \in DroppedLines :
              parseImageList(adapter.obj, Join(InsertAt(ret.lines, p, b))).val
                  = ret.val

\* two records around a line that does not decode: both kept, in order
C2_Witness ==
    /\ ret.op = "parseContainerList"
    /\ ret.lines = <<LineFull, LineInvalid, LineStopped>>
    /\ Len(ret.val.items) = 2
    /\ ret.val.items[1].ID = <<"b">>
    /\ ret.val.items[2].ID = <<"a">>

\* C3: GetContainers and GetImages fail exactly when the executor fails, then
\* with a nil sequence, an error wrapping the executor's and no parsing; when
\* the executor succeeds they give a nil error and a sequence, whatever the
\* output.
C3_ErrorIffExecutorFails ==
    ret.op \in {"GetContainers", "GetImages"} =>
        /\ ((ret.err # NoErr) <=> (ret.execErr # NoErr))
        /\ ret.execErr # NoErr =>
              /\ ret.val.isNil
              /\ ret.val.items = <<>>
              /\ ret.err.cause = ret.execErr.msg
              /\ ret.parsed = <<>>
        /\ ret.execErr = NoErr =>
              /\ ~ret.val.isNil
              /\ ret.parsed = <<ret.out>>
        /\ Len(ret.cmds) = 1

\* the executor succeeds with nothing but unusable lines
C3_Witness ==
    /\ ret.op = "GetContainers"
    /\ ret.execErr = NoErr
    /\ ret.lines = <<LineInvalid, LineNoId>>
    /\ ret.err = NoErr
    /\ ret.val.items = <<>>

\* C4: no returned Container has an empty ID or Name and no returned Image
\* an empty ID; jsonToContainer and jsonToImage give no entity for a record
\* whose mandatory field is missing, not a string or the empty string.
C4_NoEmptyIdentity ==
    /\ ret.op \in {"parseContainerList", "GetContainers"} =>
          \A i \in 1..Len(ret.val.items) :
              ret.val.items[i].ID # <<>> /\ ret.val.items[i].Name # <<>>
    /\ ret.op \in {"parseImageList", "GetImages"} =>
          \A i \in 1..Len(ret.val.items) : ret.val.items[i].ID # <<>>
    /\ ret.op = "jsonToContainer" =>
          /\ (StrOf(ret.data, K_id) = <<>> \/ StrOf(ret.data, K_name) = <<>>)
                 => ret.val.isNil
          /\ ~ret.val.isNil => (ret.val.ent.ID # <<>> /\ ret.val.ent.Name # <<>>)
    /\ ret.op = "jsonToImage" =>
          /\ StrOf(ret.data, K_id) = <<>> => ret.val.isNil
          /\ ~ret.val.isNil => ret.val.ent.ID # <<>>

\* the name is there, the id is present but the empty string
C4_Witness ==
    /\ ret.op = "jsonToContainer"
    /\ K_id \in DOMAIN ret.data
    /\ ret.data[K_id] = Str(<<>>)
    /\ StrOf(ret.data, K_name) # <<>>
    /\ ret.val.isNil

\* C5: a missing or wrong-typed field counts as the empty string; with the
\* mandatory fields non-empty strings there is an entity whose ID and Name
\* (container) or ID, Name and Tag (image) are the record's strings, the
\* optional ones empty when absent or wrong-typed.
C5_FieldMapping ==
    /\ (ret.op = "jsonToContainer"
              /\ IsStr(ret.data, K_id) /\ ret.data[K_id].raw # <<>>
              /\ IsStr(ret.data, K_name) /\ ret.data[K_name].raw # <<>>)
          => /\ ~ret.val.isNil
             /\ ret.val.ent.ID = ret.data[K_id].raw
             /\ ret.val.ent.Name = ret.data[K_name].raw
    /\ (ret.op = "jsonToImage" /\ IsStr(ret.data, K_id) /\ ret.data[K_id].raw # <<>>)
          => /\ ~ret.val.isNil
             /\ ret.val.ent.ID = ret.data[K_id].raw
             /\ ret.val.ent.Name =
                   IF IsStr(ret.data, K_name) THEN ret.data[K_name].raw ELSE <<>>
             /\ ret.val.ent.Tag =
                   IF IsStr(ret.data, K_tag) THEN ret.data[K_tag].raw ELSE <<>>
    /\ (ret.op = "parseContainerList"
              /\ Len(ret.lines) = 1 /\ ret.lines[1] \in {LineFull, LineStopped, LineCR})
          => Len(ret.val.items) = 1
    /\ (ret.op = "parseImageList"
              /\ Len(ret.lines) = 1 /\ ret.lines[1] \in {LineFull, LineWrongTyped, LineIdOnly})
          => Len(ret.val.items) = 1

\* an image whose name is a nested mapping and whose tag is a number
C5_Witness ==
    /\ ret.op = "jsonToImage"
    /\ K_name \in DOMAIN ret.data /\ ret.data[K_name] = Nested
    /\ K_tag \in DOMAIN ret.data /\ ret.data[K_tag] = Number1
    /\ ~ret.val.isNil
    /\ ret.val.ent.ID = <<"a">>
    /\ ret.val.ent.Name = <<>>
    /\ ret.val.ent.Tag = <<>>

AllSpace(s) == \A i \in 1..Len(s) : s[i] \in {" ", "\t", "\n", "\r"}

NonBlank(line) == ~AllSpace(line)

\* C6: an empty or all-whitespace text gives an empty sequence and a nil
\* error; blank and whitespace-only lines between records contribute
\* nothing.
C6_BlankInput ==
    /\ ret.op \in {"parseContainerList", "parseImageList"} =>
          /\ AllSpace(ret.out) =>
                (ret.val.items = <<>> /\ ret.err = NoErr /\ ret.logs = <<>>)
          /\ ret.err = NoErr
    /\ ret.op = "parseContainerList" =>
          ret.val.items =
              parseContainerList(adapter.obj, Join(SelectSeq(ret.lines, NonBlank))).val.items
    /\ ret.op = "parseImageList" =>
          ret.val.items =
              parseImageList(adapter.obj, Join(SelectSeq(ret.lines, NonBlank))).val.items

\* a blank and a whitespace-only line between two records
C6_Witness ==
    /\ ret.op = "parseImageList"
    /\ ret.lines = <<LineIdOnly, LineSpaces, LineFull>>
    /\ Len(ret.val.items) = 2

\* the whole text is one JSON object, surrounded by nothing but whitespace
IsSingleObject(s) == ScanDocument(s).ok /\ ScanDocument(s).top = "object"

\* the whole text is the JSON literal null
IsNullDocument(s) == TrimSpace(s) = <<"n", "u", "l", "l">>

\* C7 as stated: SystemStatus gives an error and a nil mapping when the
\* executor fails or the output is not a single JSON object, and otherwise
\* the decoded mapping with a nil error.
C7_ErrorUnlessSingleObject ==
    ret.op = "SystemStatus" =>
        /\ ((ret.err # NoErr) <=> (ret.execErr # NoErr \/ ~IsSingleObject(ret.out)))
        /\ ret.err # NoErr => ret.val = NilMap

\* C7 amended: SystemStatus gives an error and a nil mapping when the
\* executor fails or the output is neither a single JSON object nor the
\* literal null; a single object is returned as decoded, null gives a nil
\* mapping with a nil error.
C7_ErrorUnlessObjectOrNull ==
    ret.op = "SystemStatus" =>
        /\ ((ret.err # NoErr) <=>
              (ret.execErr # NoErr
                  \/ ~(IsSingleObject(ret.out) \/ IsNullDocument(ret.out))))
        /\ ret.err # NoErr => ret.val = NilMap
        /\ (ret.err = NoErr /\ IsNullDocument(ret.out)) => ret.val = NilMap
        /\ (ret.err = NoErr /\ IsSingleObject(ret.out)) =>
              /\ ~ret.val.isNil
              /\ ret.val.map = ScanDocument(ret.out).map
        /\ Len(ret.cmds) = 1

\* two objects on two lines: an error, no partial status
C7_Witness ==
    /\ ret.op = "SystemStatus"
    /\ ret.execErr = NoErr
    /\ ret.lines = <<LineFull, LineStopped>>
    /\ ret.err # NoErr
    /\ ret.val = NilMap

NotFound ==
    "Apple Container CLI not found. Please ensure 'container' command is available in PATH"

\* C8: NewAppleContainerCommand gives a nil adapter and the "Apple Container
\* CLI not found" error when the probe fails, an adapter and a nil error
\* when it succeeds, never both an adapter and an error, and does not call
\* the executor.
C8_ConstructionGated ==
    ret.op = "New" =>
        /\ ~ret.args[1] => (ret.val.isNil /\ ret.err # NoErr /\ ret.err.msg = NotFound)
        /\ ret.args[1] => (~ret.val.isNil /\ ret.err = NoErr)
        /\ ~(~ret.val.isNil /\ ret.err # NoErr)
        /\ ret.cmds = <<>>

C8_Witness ==
    /\ ret.op = "New"
    /\ ~ret.args[1]
    /\ ret.val.isNil
    /\ ret.err.msg = NotFound

Expected(op, args) ==
    IF op = "BuildImage"
        THEN "container build --tag " \o args[1] \o " --file " \o args[2] \o " ."
    ELSE IF op = "RunContainer"
        THEN IF args[3]
             THEN "container run --name " \o args[1] \o " --detach " \o args[2]
             ELSE "container run --name " \o args[1] \o " " \o args[2]
    ELSE IF op = "StopContainer" THEN "container stop " \o args[1]
    ELSE IF op = "RemoveContainer"
        THEN IF args[2] THEN "container rm --force " \o args[1]
             ELSE "container rm " \o args[1]
    ELSE IF op = "ExecCommand" THEN "container exec " \o args[1] \o " " \o args[2]
    ELSE IF op = "SystemStart" THEN "container system start"
    ELSE "container system stop"

\* C10: each mutating and service-control operation hands one command line
\* to the executor and returns its error unchanged; optional flags appear
\* exactly when requested, before the positional argument.
C10_OneCommand ==
    ret.op \in {"BuildImage", "RunContainer", "StopContainer", "RemoveContainer",
                "ExecCommand", "SystemStart", "SystemStop"} =>
        /\ Len(ret.cmds) = 1
        /\ ret.cmds[1] = Expected(ret.op, ret.args)
        /\ ret.err = ret.execErr

\* a detached run that the executor fails
C10_Witness ==
    /\ ret.op = "RunContainer"
    /\ ret.args = <<"web", "nginx", TRUE>>
    /\ ret.cmds = <<"container run --name web --detach nginx">>
    /\ ret.err = ExecFailure

====
